---------------------------- MODULE Spec2Model ----------------------------
(***************************************************************************)
(* RobustWebSocketService (src/src/services/websocket_robust.ts): the      *)
(* connection manager, its reconnect scheduler and the host objects it     *)
(* drives (browser WebSocket objects, setTimeout / setInterval timers).    *)
(*                                                                         *)
(* The manager's fields are the variables.  Every method and every event   *)
(* handler is an operator from a "frame" (a record of the fields plus the  *)
(* effects of the running step) to a frame, so that a handler calling      *)
(* another method is function composition, as in the code.  One action is  *)
(* one host task: a call of the public API, one socket event, one timer.   *)
(***************************************************************************)
EXTENDS Integers, Sequences, FiniteSets, Bags, TLC

VARIABLES
    ws,                 \* this.ws: the current socket, or NoSocket (null)
    old,                \* sockets the manager created and no longer references,
                        \* not yet CLOSED: their handlers are still attached
    timeouts,           \* the host's pending setTimeout callbacks (a bag)
    reconnectTimer,     \* this.reconnectTimer is set (a handle, maybe of a fired timer)
    pingTimer,          \* this.pingTimer is set (the interval is active)
    isConnecting,       \* this.isConnecting
    shouldReconnect,    \* this.shouldReconnect
    reconnectAttempts,  \* this.reconnectAttempts
    retryCount,         \* this.retryCount (WebSocketService)
    channels,           \* this.channels
    hasErrorListener,   \* listenerCount('error') > 0
    listeners,          \* the emitter's registry: event kind -> callbacks, in order
    regs,               \* history: the registrations in force, each with the
                        \* time of its on() call
    clock,              \* history: the number of on() calls so far
    last,               \* history: the step that led here and what it did
    chain,              \* history: "idle" before the caller's first call, "auto" while
                        \* that call was connect() and the caller made no other, else "manual"
    fails,              \* history: consecutive failed attempts of the automatic chain
    fresh,              \* history: "open" after a successful open until a reconnect is
                        \* scheduled, "first" from then until the next is, else "no"
    cancelled,          \* history: disconnect() was called, connect() not since
    exhausted           \* history: retries ran out; no caller (re)connect, no open since

vars == <<ws, old, timeouts, reconnectTimer, pingTimer, isConnecting,
          shouldReconnect, reconnectAttempts, retryCount, channels, hasErrorListener,
          listeners, regs, clock,
          last, chain, fails, fresh, cancelled, exhausted>>

----------------------------------------------------------------------------
(* Bounds of the model. *)
MaxOld == 1
MaxForce == 1

(* Program constants. *)
reconnectInterval == 3000
maxReconnectInterval == 30000
maxReconnectAttempts == 10
forceReconnectDelay == 1000
NormalClosure == 1000

\* reconnectDecay = 1.5, as the fraction DecayNum / DecayDen
DecayNum == 3
DecayDen == 2

\* Delays are kept in units of 1/TimeUnit ms, so that every value
\* reconnectInterval * 1.5^n the code can compute (n <= UnitExp) is an integer.
UnitExp == maxReconnectAttempts + 2
TimeUnit == DecayDen ^ UnitExp

Min(a, b) == IF a <= b THEN a ELSE b

----------------------------------------------------------------------------
(* The browser WebSocket. *)
NoSocket == [readyState |-> "null", wasOpen |-> FALSE]
NewSocket == [readyState |-> "CONNECTING", wasOpen |-> FALSE]
ReadyStates == {"CONNECTING", "OPEN", "CLOSING", "CLOSED"}
Sockets == [readyState : ReadyStates, wasOpen : BOOLEAN]

\* WebSocket.close(): a CONNECTING or OPEN socket starts closing; the close
\* event arrives in a later task.
SocketCloseCallAlways(s) ==
    IF s.readyState = "null" THEN s ELSE [s EXCEPT !.readyState = "CLOSING"]

SocketCloseCall(s) ==
    IF s.readyState \in {"CONNECTING", "OPEN"}
    THEN [s EXCEPT !.readyState = "CLOSING"]
    ELSE s

\* Closing handshakes a close() call on s starts: none on a socket that is
\* closing or closed already.
CloseRequests(s) == IF SocketCloseCall(s) # s THEN 1 ELSE 0

\* A socket the manager drops its reference to keeps its handlers; it still
\* delivers events unless it is CLOSED already.
Retire(bag, s) ==
    IF s.readyState \in {"null", "CLOSED"} THEN bag ELSE bag (+) SetToBag({s})

----------------------------------------------------------------------------
(* Inbound frames and the values handed to subscribers. *)

\* WebSocketMessage.type (lines 22-31), and a type outside the union
FrameTypes ==
    {"progress", "result", "complete", "error", "alert", "notification",
     "connection_established", "pong", "ready", "other"}

\* the data member of a frame: an object, a falsy value (0), or no member
Payloads == {"object", "zero", "undefined"}

\* event.data: text JSON.parse accepts (ok, with the parsed type and data),
\* or text it rejects
NoFrame == [ok |-> FALSE, type |-> "none", data |-> "undefined"]
Malformed == [ok |-> FALSE, type |-> "malformed", data |-> "undefined"]
\* The argument of a callback: the frame's data member, or the whole frame.
DataOf(f) == [whole |-> FALSE, type |-> "", data |-> f.data]
WholeOf(f) == [whole |-> TRUE, type |-> f.type, data |-> f.data]
Truthy(d) == d = "object"

Callbacks == {"A", "B", "C"}
ListenKinds == {"progress", "alert"}

\* The frames the server sends: every type; the data member varies in the
\* frames of the kinds that have subscribers.
InboundFrames ==
    {f \in [ok : {TRUE}, type : FrameTypes, data : Payloads] :
        f.type \notin ListenKinds => f.data = "object"} \cup {Malformed}

\* the arguments of an off() call; none when the step is not one
NoCall == [kind |-> "", cb |-> ""]

----------------------------------------------------------------------------
(* Frames. *)
Frame ==
    [ws |-> ws, old |-> old, timeouts |-> timeouts,
     reconnectTimer |-> reconnectTimer, pingTimer |-> pingTimer,
     isConnecting |-> isConnecting, shouldReconnect |-> shouldReconnect,
     reconnectAttempts |-> reconnectAttempts, retryCount |-> retryCount,
     channels |-> channels,
     hasErrorListener |-> hasErrorListener,
     listeners |-> listeners, regs |-> regs, clock |-> clock,
     exc |-> FALSE,      \* an exception is propagating
     made |-> 0,         \* sockets constructed in this step
     sched |-> 0,        \* reconnect timers scheduled in this step
     ctorFailed |-> FALSE, \* new WebSocket() threw in this step
     maxed |-> FALSE,    \* 'maxReconnectAttemptsReached' was emitted
     wrote |-> 0,        \* frames written to a socket
     ret |-> "none",     \* what send() returned: "true", "false", or "none"
     errs |-> 0,         \* 'error' events emitted in this step
     closeReq |-> 0,     \* closing handshakes the step started with close()
     inbound |-> NoFrame, \* the frame the step received
     used |-> <<>>,      \* the channel list of the URL connect() built last
     arg |-> NoCall,     \* the arguments of the off() call of this step
     calls |-> <<>>]     \* the subscriber callbacks invoked, with their argument

\* EventEmitter.emit('error', ...) of the 'events' package throws when no
\* listener is registered for 'error'; any other event with no listener is
\* dropped.  Listeners are taken to return normally.
emitError(m) ==
    IF m.hasErrorListener
    THEN [m EXCEPT !.errs = @ + 1]
    ELSE [m EXCEPT !.errs = @ + 1, !.exc = TRUE]

clearReconnectTimer(m) ==
    IF m.reconnectTimer
    THEN [m EXCEPT !.timeouts =
                      [t \in {x \in DOMAIN m.timeouts : ~x.tracked} |-> m.timeouts[t]],
                   !.reconnectTimer = FALSE]
    ELSE m

stopPingInterval(m) == [m EXCEPT !.pingTimer = FALSE]

startPingInterval(m) == [stopPingInterval(m) EXCEPT !.pingTimer = TRUE]

\* reconnectInterval * Math.pow(reconnectDecay, n), in 1/TimeUnit ms
BackoffRaw(n) ==
    reconnectInterval * (DecayNum ^ n) * (DecayDen ^ (UnitExp - n))

currentIntervalUncapped(n) == BackoffRaw(n)
currentInterval(n) == Min(BackoffRaw(n), maxReconnectInterval * TimeUnit)

\* After setTimeout the handle this.reconnectTimer names the new timer only:
\* a timer it named before, if still pending, stays pending with no handle.
Untrack(bag) ==
    LET T == {t \in DOMAIN bag : t.tracked}
    IN  IF T = {} THEN bag
        ELSE LET t == CHOOSE x \in T : TRUE
             IN  (bag (-) SetToBag({t})) (+) SetToBag({[t EXCEPT !.tracked = FALSE]})

ScheduleExhaustedBad(m) == m.reconnectAttempts > maxReconnectAttempts
ScheduleExhausted(m) == m.reconnectAttempts >= maxReconnectAttempts

ScheduleClearLeak(m) == m
ScheduleClear(m) == clearReconnectTimer(m)

scheduleReconnect(m) ==
    IF ScheduleExhausted(m)
    THEN [m EXCEPT !.maxed = TRUE]
    ELSE LET c == ScheduleClear(m)
             t == [cb |-> "reconnect",
                   delay |-> currentInterval(c.reconnectAttempts),
                   tracked |-> TRUE]
         IN  [c EXCEPT !.timeouts = Untrack(@) (+) SetToBag({t}),
                       !.reconnectTimer = TRUE,
                       !.sched = @ + 1]

ConnectGuard(m) == m.isConnecting \/ m.ws.readyState = "OPEN"

\* new WebSocket(wsUrl) throws a SyntaxError on a URL with a fragment, which
\* wsUrl has when a channel name holds a '#'; otherwise it returns a socket.
UrlAccepted(chs) == \A i \in DOMAIN chs : chs[i] # "#"

connect(m, chs) ==
    IF ConnectGuard(m) THEN m
    ELSE LET m1 == [m EXCEPT !.isConnecting = TRUE,
                             !.channels = chs,
                             !.shouldReconnect = TRUE,
                             !.used = chs]
         IN  IF UrlAccepted(chs)
             THEN [m1 EXCEPT !.old = Retire(@, m.ws),
                             !.ws = NewSocket,
                             !.made = @ + 1]
             ELSE LET m2 == emitError([m1 EXCEPT !.isConnecting = FALSE,
                                                 !.ctorFailed = TRUE])
                  IN  IF m2.exc THEN m2 ELSE scheduleReconnect(m2)

SendReconnects(m) == m.shouldReconnect /\ ~m.isConnecting

\* send(data); dataOk: JSON.stringify(message) and ws.send return.
\* A return statement of send(): not reached when an exception propagates.
Return(m, v) == IF m.exc THEN m ELSE [m EXCEPT !.ret = v]

send(m, dataOk) ==
    IF m.ws.readyState = "OPEN"
    THEN IF dataOk
         THEN Return([m EXCEPT !.wrote = @ + 1], "true")
         ELSE Return(emitError(m), "false")
    ELSE Return(IF SendReconnects(m) THEN connect(m, m.channels) ELSE m, "false")

OpenResetKeep(m) == m
OpenReset(m) == [m EXCEPT !.reconnectAttempts = 0]

onopen(m) ==
    LET m1 == OpenReset([m EXCEPT !.isConnecting = FALSE])
        m2 == startPingInterval(clearReconnectTimer(m1))
    IN  send(m2, TRUE)

onerror(m) ==
    LET m1 == emitError([m EXCEPT !.isConnecting = FALSE])
    IN  IF m1.exc THEN m1
        ELSE IF m1.shouldReconnect THEN scheduleReconnect(m1) ELSE m1

CloseRetriesAny(m, code) == m.shouldReconnect
CloseRetries(m, code) == m.shouldReconnect /\ code # NormalClosure

onclose(m, code) ==
    LET m1 == stopPingInterval([m EXCEPT !.isConnecting = FALSE])
    IN  IF CloseRetries(m1, code) THEN scheduleReconnect(m1) ELSE m1

DisconnectClear(m) == clearReconnectTimer(m)

disconnect(m) ==
    LET m1 == stopPingInterval(DisconnectClear([m EXCEPT !.shouldReconnect = FALSE]))
        m2 == IF m1.ws.readyState # "null"
              THEN [m1 EXCEPT !.old = Retire(@, SocketCloseCall(m1.ws)),
                              !.ws = NoSocket,
                              !.closeReq = @ + CloseRequests(m1.ws)]
              ELSE m1
    IN  [m2 EXCEPT !.isConnecting = FALSE, !.reconnectAttempts = 0]

forceReconnect(m) ==
    LET t == [cb |-> "force", delay |-> forceReconnectDelay * TimeUnit,
              tracked |-> FALSE]
    IN  [disconnect(m) EXCEPT !.timeouts = @ (+) SetToBag({t})]

reconnectCallbackDefault(m) ==
    IF m.shouldReconnect
    THEN connect([m EXCEPT !.reconnectAttempts = @ + 1], <<"analysis", "alerts">>)
    ELSE m

\* The callback scheduleReconnect gives to setTimeout.
reconnectCallback(m) ==
    IF m.shouldReconnect
    THEN connect([m EXCEPT !.reconnectAttempts = @ + 1], m.channels)
    ELSE m

\* The callback forceReconnect gives to setTimeout.
forceCallback(m) == connect(m, m.channels)

\* The callback startPingInterval gives to setInterval.
pingCallback(m) ==
    IF m.ws.readyState = "OPEN"
    THEN send(m, TRUE)
    ELSE stopPingInterval(m)

----------------------------------------------------------------------------
(* The EventEmitter RobustWebSocketService extends (package 'events'), and
   the routing of inbound frames.  `thr` is the set of subscriber callbacks
   that throw when they are invoked in this step. *)

Listeners(m, kind) == IF kind \in DOMAIN m.listeners THEN m.listeners[kind] ELSE <<>>

\* the invocations of the callbacks of `list`, in the order of the list
Invoke(list, arg) == [i \in 1..Len(list) |-> [cb |-> list[i], arg |-> arg]]

\* index of the first callback of `list` that throws, 0 if none does
FirstThrow(list, thr) ==
    LET T == {i \in 1..Len(list) : list[i] \in thr}
    IN  IF T = {} THEN 0 ELSE CHOOSE i \in T : \A j \in T : i <= j

\* index of the last occurrence of cb in `list`, 0 if none
LastIndex(list, cb) ==
    LET T == {i \in 1..Len(list) : list[i] = cb}
    IN  IF T = {} THEN 0 ELSE CHOOSE i \in T : \A j \in T : j <= i

RemoveAt(list, k) == [i \in 1..(Len(list) - 1) |-> IF i < k THEN list[i] ELSE list[i + 1]]

\* the registry with an entry for `kind`, an empty list if it had none
WithKind(l, kind) ==
    [k \in DOMAIN l \cup {kind} |-> IF k \in DOMAIN l THEN l[k] ELSE <<>>]

\* EventEmitter.on(kind, cb): appended, duplicates allowed
on(m, kind, cb) ==
    [m EXCEPT !.listeners = [WithKind(@, kind) EXCEPT ![kind] = Append(@, cb)]]

\* EventEmitter.removeListener(kind, cb): the most recently added instance
removeListener(m, kind, cb) ==
    LET k == LastIndex(Listeners(m, kind), cb)
    IN  IF k = 0 THEN m ELSE [m EXCEPT !.listeners[kind] = RemoveAt(@, k)]

\* EventEmitter.emit(kind, arg): the listeners are called in order, with no
\* try/catch around them: the first one that throws ends the emit, the
\* exception propagating to the caller of emit.
emit(m, kind, arg, thr) ==
    LET l == Listeners(m, kind)
        k == FirstThrow(l, thr)
    IN  IF k = 0
        THEN [m EXCEPT !.calls = @ \o Invoke(l, arg)]
        ELSE [m EXCEPT !.calls = @ \o Invoke(SubSeq(l, 1, k), arg), !.exc = TRUE]

handleMessage(m, f, thr) ==
    CASE f.type \in {"progress", "result", "complete", "alert", "notification"}
            -> emit(m, f.type, DataOf(f), thr)
      [] f.type = "error" -> emit(m, "serverError", DataOf(f), thr)
      [] f.type \in {"connection_established", "ready"}
            -> emit(m, "ready", WholeOf(f), thr)
      [] f.type = "pong" -> m
      [] OTHER -> emit(m, "message", WholeOf(f), thr)

\* ws.onmessage: the catch branch logs, whether JSON.parse threw or a
\* subscriber did; it emits nothing.
onmessage(m, f, thr) ==
    LET m0 == [m EXCEPT !.inbound = f]
    IN  IF f.ok THEN [handleMessage(m0, f, thr) EXCEPT !.exc = FALSE] ELSE m0

----------------------------------------------------------------------------
(* SimpleEventEmitter and EnhancedWebSocketService (src/src/types/index.ts).
   The service has the fields of RobustWebSocketService under the same
   names, but for currentChannels, which is kept in `channels`. *)

Enhanced_reconnectInterval == 5000
Enhanced_maxReconnectAttempts == 10
Enhanced_maxDelay == 30000

\* the argument of an event that carries no frame
NoArg == [whole |-> FALSE, type |-> "", data |-> "undefined"]

Simple_onOnce(m, kind, cb) ==
    [m EXCEPT !.listeners[kind] = IF LastIndex(@, cb) # 0 THEN @ ELSE Append(@, cb),
              !.regs = @ \cup {[kind |-> kind, cb |-> cb, t |-> m.clock + 1]},
              !.clock = @ + 1]

Simple_onFront(m, kind, cb) ==
    [m EXCEPT !.listeners[kind] = <<cb>> \o @,
              !.regs = @ \cup {[kind |-> kind, cb |-> cb, t |-> m.clock + 1]},
              !.clock = @ + 1]

\* SimpleEventEmitter.on: push
Simple_on(m, kind, cb) ==
    [m EXCEPT !.listeners[kind] = Append(@, cb),
              !.regs = @ \cup {[kind |-> kind, cb |-> cb, t |-> m.clock + 1]},
              !.clock = @ + 1]

Simple_offEverywhere(m, kind, cb) ==
    [m EXCEPT !.listeners = [k \in DOMAIN @ |-> SelectSeq(@[k], LAMBDA x : x # cb)],
              !.regs = {r \in @ : r.cb # cb},
              !.arg = [kind |-> kind, cb |-> cb]]

\* SimpleEventEmitter.off: filter(cb => cb !== callback), every instance;
\* nothing when the kind has no list
Simple_off(m, kind, cb) ==
    IF kind \in DOMAIN m.listeners
    THEN [m EXCEPT !.listeners[kind] = SelectSeq(@, LAMBDA x : x # cb),
                   !.regs = {r \in @ : ~(r.kind = kind /\ r.cb = cb)},
                   !.arg = [kind |-> kind, cb |-> cb]]
    ELSE [m EXCEPT !.arg = [kind |-> kind, cb |-> cb]]

\* SimpleEventEmitter.emit: forEach over the listeners, each call inside its
\* own try/catch
Simple_emit(m, kind, arg, thr) ==
    [m EXCEPT !.calls = @ \o Invoke(Listeners(m, kind), arg),
              !.errs = IF kind = "error" THEN @ + 1 ELSE @,
              !.maxed = @ \/ kind = "maxReconnectAttemptsReached"]

\* data.data || data
Enhanced_DataOrFrame(f) == IF Truthy(f.data) THEN DataOf(f) ELSE WholeOf(f)

Enhanced_handleMessage(m, f, thr) ==
    CASE f.type = "ready" -> Simple_emit(m, "ready", WholeOf(f), thr)
      [] f.type = "connection" -> Simple_emit(m, "connected", WholeOf(f), thr)
      [] f.type \in {"progress", "result"} -> Simple_emit(m, f.type, DataOf(f), thr)
      [] f.type \in {"complete", "alert", "notification"}
            -> Simple_emit(m, f.type, Enhanced_DataOrFrame(f), thr)
      [] f.type = "error" -> Simple_emit(m, "serverError", DataOf(f), thr)
      [] f.type = "pong" -> m
      [] OTHER -> Simple_emit(m, "message", WholeOf(f), thr)

Enhanced_onmessage(m, f, thr) ==
    LET m0 == [m EXCEPT !.inbound = f]
    IN  IF f.ok THEN Enhanced_handleMessage(m0, f, thr)
        ELSE Simple_emit(m0, "error", NoArg, thr)

\* Math.min(reconnectInterval * Math.pow(1.5, n - 1), 30000), in 1/TimeUnit ms
Enhanced_delay(n) ==
    Min(Enhanced_reconnectInterval * (DecayNum ^ (n - 1)) * (DecayDen ^ (UnitExp - (n - 1))),
        Enhanced_maxDelay * TimeUnit)

Enhanced_handleReconnection(m) ==
    IF ~m.shouldReconnect \/ m.reconnectAttempts >= Enhanced_maxReconnectAttempts
    THEN Simple_emit(m, "maxReconnectAttemptsReached", NoArg, {})
    ELSE LET c == [clearReconnectTimer(m) EXCEPT !.reconnectAttempts = @ + 1]
             t == [cb |-> "reconnect", delay |-> Enhanced_delay(c.reconnectAttempts),
                   tracked |-> TRUE]
         IN  [c EXCEPT !.timeouts = Untrack(@) (+) SetToBag({t}),
                       !.reconnectTimer = TRUE,
                       !.sched = @ + 1]

Enhanced_connect(m, chs) ==
    IF m.isConnecting \/ m.ws.readyState = "OPEN" THEN m
    ELSE LET m1 == [m EXCEPT !.isConnecting = TRUE,
                             !.channels = chs,
                             !.shouldReconnect = TRUE]
         IN  IF UrlAccepted(chs)
             THEN [m1 EXCEPT !.old = Retire(@, m.ws),
                             !.ws = NewSocket,
                             !.made = @ + 1]
             ELSE Enhanced_handleReconnection([m1 EXCEPT !.isConnecting = FALSE,
                                                         !.ctorFailed = TRUE])

Enhanced_onopen(m) ==
    LET m1 == [m EXCEPT !.isConnecting = FALSE, !.reconnectAttempts = 0]
        m2 == Simple_emit(m1, "connected", NoArg, {})
    IN  startPingInterval(clearReconnectTimer(m2))

Enhanced_onerror(m) ==
    LET m1 == Simple_emit([m EXCEPT !.isConnecting = FALSE], "error", NoArg, {})
    IN  IF m1.shouldReconnect THEN Enhanced_handleReconnection(m1) ELSE m1

Enhanced_onclose(m, code) ==
    LET m1 == stopPingInterval([m EXCEPT !.isConnecting = FALSE])
        m2 == Simple_emit(m1, "disconnected", NoArg, {})
    IN  IF m2.shouldReconnect /\ code # NormalClosure
        THEN Enhanced_handleReconnection(m2)
        ELSE m2

Enhanced_disconnect(m) ==
    LET m1 == stopPingInterval(clearReconnectTimer([m EXCEPT !.shouldReconnect = FALSE]))
        m2 == IF m1.ws.readyState # "null"
              THEN [m1 EXCEPT !.old = Retire(@, SocketCloseCall(m1.ws)),
                              !.ws = NoSocket,
                              !.closeReq = @ + CloseRequests(m1.ws)]
              ELSE m1
    IN  [m2 EXCEPT !.isConnecting = FALSE, !.reconnectAttempts = 0]

Enhanced_send(m, dataOk) ==
    IF m.ws.readyState = "OPEN"
    THEN IF dataOk
         THEN Return([m EXCEPT !.wrote = @ + 1], "true")
         ELSE Return(Simple_emit(m, "error", NoArg, {}), "false")
    ELSE Return(Simple_emit(m, "error", NoArg, {}), "false")

\* ping(), the callback of the ping interval
Enhanced_ping(m) == Enhanced_send(m, TRUE)

\* The callback handleReconnection gives to setTimeout.
Enhanced_reconnectCallback(m) ==
    IF m.shouldReconnect THEN Enhanced_connect(m, m.channels) ELSE m

----------------------------------------------------------------------------
(* WebSocketService (src/src/services/websocket_fixed.ts).  Its constructor
   registers an 'error' listener, so emitting 'error' never throws.  The
   channel list is not a field: each socket's handlers and each timer keep
   the list of the connect() call that made them. *)

Fixed_reconnectInterval == 5000
Fixed_maxRetryAttempts == 3

\* reconnectInterval * Math.pow(2, retryCount - 1), in 1/TimeUnit ms
Fixed_delay(n) == Fixed_reconnectInterval * (2 ^ (UnitExp + n - 1))

Fixed_scheduleReconnect(m, chs) ==
    LET c == clearReconnectTimer(m)
        t == [cb |-> "reconnect", delay |-> Fixed_delay(c.retryCount),
              tracked |-> TRUE, chs |-> chs]
    IN  [c EXCEPT !.timeouts = Untrack(@) (+) SetToBag({t}),
                  !.reconnectTimer = TRUE,
                  !.sched = @ + 1]

Fixed_handleConnectionError(m, chs) ==
    LET m1 == [m EXCEPT !.isConnecting = FALSE,
                        !.retryCount = @ + 1,
                        !.errs = @ + 1]
    IN  IF m1.retryCount < Fixed_maxRetryAttempts
        THEN Fixed_scheduleReconnect(m1, chs)
        ELSE m1

Fixed_connect(m, chs) ==
    IF m.isConnecting \/ m.ws.readyState = "OPEN" THEN m
    ELSE LET m1 == [m EXCEPT !.isConnecting = TRUE]
         IN  IF UrlAccepted(chs)
             THEN [m1 EXCEPT !.old = Retire(@, m.ws),
                             !.ws = NewSocket,
                             !.made = @ + 1]
             ELSE Fixed_handleConnectionError([m1 EXCEPT !.ctorFailed = TRUE], chs)

Fixed_send(m, dataOk) ==
    IF m.ws.readyState = "OPEN" /\ dataOk
    THEN Return([m EXCEPT !.wrote = @ + 1], "true")
    ELSE Return(m, "false")

Fixed_onopen(m) ==
    LET m1 == [m EXCEPT !.isConnecting = FALSE, !.retryCount = 0]
    IN  Fixed_send(clearReconnectTimer(m1), TRUE)

\* ws.onerror: setTimeout(() => this.handleConnectionError(...), 0)
Fixed_onerror(m, chs) ==
    LET t == [cb |-> "error", delay |-> 0, tracked |-> FALSE, chs |-> chs]
    IN  [m EXCEPT !.timeouts = @ (+) SetToBag({t})]

Fixed_onclose(m, code, chs) ==
    LET m1 == [m EXCEPT !.isConnecting = FALSE]
    IN  IF code # NormalClosure /\ m1.retryCount < Fixed_maxRetryAttempts
        THEN Fixed_scheduleReconnect(m1, chs)
        ELSE IF m1.retryCount >= Fixed_maxRetryAttempts
             THEN [m1 EXCEPT !.maxed = TRUE]
             ELSE m1

Fixed_disconnect(m) ==
    LET m1 == [clearReconnectTimer(m) EXCEPT !.retryCount = Fixed_maxRetryAttempts]
        m2 == IF m1.ws.readyState # "null"
              THEN [m1 EXCEPT !.old = Retire(@, SocketCloseCall(m1.ws)),
                              !.ws = NoSocket,
                              !.closeReq = @ + CloseRequests(m1.ws)]
              ELSE m1
    IN  [m2 EXCEPT !.isConnecting = FALSE]

Fixed_resetRetryCount(m) == [m EXCEPT !.retryCount = 0]

\* The callback scheduleReconnect gives to setTimeout.
Fixed_reconnectCallback(m, chs) ==
    IF m.retryCount < Fixed_maxRetryAttempts THEN Fixed_connect(m, chs) ELSE m

----------------------------------------------------------------------------
(* Initial state: the fields as the class declares them (lines 39-51). *)
Init ==
    /\ ws = NoSocket
    /\ old = EmptyBag
    /\ timeouts = EmptyBag
    /\ reconnectTimer = FALSE
    /\ pingTimer = FALSE
    /\ isConnecting = FALSE
    /\ shouldReconnect = TRUE
    /\ reconnectAttempts = 0
    /\ retryCount = 0
    /\ channels = <<>>
    /\ hasErrorListener = FALSE
    /\ listeners = [k \in ListenKinds |-> <<>>]
    /\ regs = {}
    /\ clock = 0
    /\ last = [op |-> "init", code |-> 0, cur |-> TRUE, made |-> 0, sched |-> 0,
               ret |-> "none", wrote |-> 0, threw |-> FALSE, errs |-> 0,
               maxed |-> FALSE, closeReq |-> 0, inbound |-> NoFrame,
               calls |-> <<>>, used |-> <<>>, arg |-> NoCall]
    /\ chain = "idle"
    /\ fails = 0
    /\ fresh = "no"
    /\ cancelled = FALSE
    /\ exhausted = FALSE

\* The channel lists a caller passes: the default one, and one the host
\* rejects when it builds the URL.
ChannelLists == {<<"analysis", "alerts">>, <<"#">>}
CloseCodes == {NormalClosure, 1001}
CallerOps == {"connect", "disconnect", "send", "forceReconnect", "resetRetryCount"}
FailureOps == {"fail", "close"}

ForcePending(bag) ==
    LET F == {t \in DOMAIN bag : t.cb = "force"}
    IN  IF F = {} THEN 0 ELSE bag[CHOOSE t \in F : TRUE]

WithinBounds(m) ==
    /\ BagCardinality(m.old) <= MaxOld
    /\ ForcePending(m.timeouts) <= MaxForce

\* A failed attempt: an abnormal closure, or a socket that could not be constructed.
Failed(m, op, code) ==
    \/ op = "fail"
    \/ op = "close" /\ code # NormalClosure
    \/ m.ctorFailed

\* The step `op` ends in frame m: the fields take m's values, the history
\* variables record what the step did.
Apply(m, op, code, cur) ==
    /\ WithinBounds(m)
    /\ ws' = m.ws
    /\ old' = m.old
    /\ timeouts' = m.timeouts
    /\ reconnectTimer' = m.reconnectTimer
    /\ pingTimer' = m.pingTimer
    /\ isConnecting' = m.isConnecting
    /\ shouldReconnect' = m.shouldReconnect
    /\ reconnectAttempts' = m.reconnectAttempts
    /\ retryCount' = m.retryCount
    /\ channels' = m.channels
    /\ hasErrorListener' = m.hasErrorListener
    /\ listeners' = m.listeners
    /\ regs' = m.regs
    /\ clock' = m.clock
    /\ last' = [op |-> op, code |-> code, cur |-> cur, made |-> m.made,
                sched |-> m.sched,
                ret |-> IF op = "send" THEN m.ret ELSE "none",
                wrote |-> IF op \in {"send", "ping"} THEN m.wrote ELSE 0,
                threw |-> m.exc, errs |-> m.errs, maxed |-> m.maxed,
                closeReq |-> m.closeReq, inbound |-> m.inbound,
                calls |-> m.calls, used |-> m.used, arg |-> m.arg]
    /\ chain' = CASE op \notin CallerOps -> chain
                  [] op = "connect" /\ chain = "idle" -> "auto"
                  [] OTHER -> "manual"
    /\ fails' = CASE chain' # "auto" \/ op = "open" -> 0
                  [] Failed(m, op, code) -> fails + 1
                  [] OTHER -> fails
    /\ fresh' = CASE m.sched > 0 /\ op # "open" /\ fresh = "open" -> "first"
                  [] m.sched > 0 -> "no"
                  [] op = "open" -> "open"
                  [] OTHER -> fresh
    /\ cancelled' = CASE op = "disconnect" -> TRUE
                      [] op \in {"connect", "forceReconnect"} -> FALSE
                      [] OTHER -> cancelled
    /\ exhausted' = CASE m.maxed -> TRUE
                      [] op \in {"connect", "forceReconnect", "open"} -> FALSE
                      [] OTHER -> exhausted

----------------------------------------------------------------------------
(* The caller's operations. *)
Connect ==
    \E chs \in ChannelLists :
        Apply(connect(Frame, chs), "connect", 0, TRUE)

Disconnect == Apply(disconnect(Frame), "disconnect", 0, TRUE)

Send ==
    \E dataOk \in BOOLEAN :
        Apply(send(Frame, dataOk), "send", 0, TRUE)

ForceReconnect == Apply(forceReconnect(Frame), "forceReconnect", 0, TRUE)

\* on('error', cb) of the inherited EventEmitter, registering the first
\* listener for 'error'
On ==
    /\ ~hasErrorListener
    /\ Apply([Frame EXCEPT !.hasErrorListener = TRUE], "on", 0, TRUE)

\* removeListener('error', cb), removing the last listener for 'error'
Off ==
    /\ hasErrorListener
    /\ Apply([Frame EXCEPT !.hasErrorListener = FALSE], "off", 0, TRUE)

----------------------------------------------------------------------------
(* The host's tasks: socket events and timers.  A socket event is delivered
   to the handlers setupWebSocketEvents attached to that socket, whether or
   not the socket is still this.ws. *)

\* The frame once socket s (the current one when cur, else one of `old`)
\* has moved to state s2.
Moved(cur, s, s2) ==
    IF cur THEN [Frame EXCEPT !.ws = s2]
    ELSE [Frame EXCEPT !.old = Retire(@ (-) SetToBag({s}), s2)]

Owned(cur, s) == IF cur THEN s = ws ELSE BagIn(s, old)

\* The connection is established: readyState OPEN, then the open event.
SocketOpen ==
    \E cur \in BOOLEAN, s \in Sockets :
        /\ Owned(cur, s)
        /\ s.readyState = "CONNECTING"
        /\ Apply(onopen(Moved(cur, s, [readyState |-> "OPEN", wasOpen |-> TRUE])),
                 "open", 0, cur)

\* The connection fails (refused, lost, or close() before it was established):
\* readyState CLOSED, then the error event and the close event (code 1006), in
\* one task.
SocketFail ==
    \E cur \in BOOLEAN, s \in Sockets :
        /\ Owned(cur, s)
        /\ s.readyState \in {"CONNECTING", "OPEN", "CLOSING"}
        /\ LET m1 == onerror(Moved(cur, s, [s EXCEPT !.readyState = "CLOSED"]))
               m2 == onclose([m1 EXCEPT !.exc = FALSE], 1006)
           IN  Apply([m2 EXCEPT !.exc = m1.exc \/ m2.exc], "fail", 1006, cur)

\* The closing handshake completes (started by the server, or by close() on
\* an open socket): readyState CLOSED, then the close event with the code.
SocketClose ==
    \E cur \in BOOLEAN, s \in Sockets, code \in CloseCodes :
        /\ Owned(cur, s)
        /\ s.readyState = "OPEN" \/ (s.readyState = "CLOSING" /\ s.wasOpen)
        /\ Apply(onclose(Moved(cur, s, [s EXCEPT !.readyState = "CLOSED"]), code),
                 "close", code, cur)

ReconnectTimeout ==
    \E t \in DOMAIN timeouts :
        /\ t.cb = "reconnect"
        /\ Apply(reconnectCallback([Frame EXCEPT !.timeouts = @ (-) SetToBag({t})]),
                 "reconnectTimer", 0, TRUE)

ForceTimeout ==
    \E t \in DOMAIN timeouts :
        /\ t.cb = "force"
        /\ Apply(forceCallback([Frame EXCEPT !.timeouts = @ (-) SetToBag({t})]),
                 "forceTimer", 0, TRUE)

PingTick ==
    /\ pingTimer
    /\ Apply(pingCallback(Frame), "ping", 0, TRUE)

Next ==
    \/ Connect
    \/ Disconnect
    \/ Send
    \/ ForceReconnect
    \/ On
    \/ Off
    \/ SocketOpen
    \/ SocketFail
    \/ SocketClose
    \/ ReconnectTimeout
    \/ ForceTimeout
    \/ PingTick

Spec == Init /\ [][Next]_vars

\* The automatic chain: the caller connects once and then only listens; the
\* host delivers socket events and timers.
AutoConnect ==
    /\ chain = "idle"
    /\ Connect

NextAuto ==
    \/ AutoConnect
    \/ On
    \/ Off
    \/ SocketOpen
    \/ SocketFail
    \/ SocketClose
    \/ ReconnectTimeout
    \/ PingTick

SpecAuto == Init /\ [][NextAuto]_vars

\* The automatic chain when the server is unreachable: no socket opens.  The
\* host delivers every socket event and fires every pending timer.
NextAutoFail ==
    \/ AutoConnect
    \/ On
    \/ Off
    \/ SocketFail
    \/ ReconnectTimeout

SpecAutoFail ==
    /\ Init
    /\ [][NextAutoFail]_vars
    /\ WF_vars(SocketFail)
    /\ WF_vars(ReconnectTimeout)

----------------------------------------------------------------------------
(* Frame routing of RobustWebSocketService: the caller connects once and
   registers and removes subscribers; the server sends frames on an open
   socket. *)

\* registrations the model keeps at a time, over all kinds
MaxListeners == 3

Registered(m) ==
    LET Count[K \in SUBSET ListenKinds] ==
            IF K = {} THEN 0
            ELSE LET k == CHOOSE x \in K : TRUE
                 IN  Len(m.listeners[k]) + Count[K \ {k}]
    IN  Count[ListenKinds]

\* the callbacks registered for the event a frame of type `type` is routed to
Subscribers(type) ==
    IF type \in ListenKinds
    THEN {listeners[type][i] : i \in 1..Len(listeners[type])}
    ELSE {}

AddListener ==
    \E kind \in ListenKinds, cb \in Callbacks :
        /\ Registered(Frame) < MaxListeners
        /\ Apply(on(Frame, kind, cb), "on", 0, TRUE)

RemoveListener ==
    \E kind \in ListenKinds, cb \in Callbacks :
        /\ LastIndex(listeners[kind], cb) # 0
        /\ Apply(removeListener(Frame, kind, cb), "off", 0, TRUE)

\* A message event on an open socket the manager created.
SocketMessage ==
    \E cur \in BOOLEAN, s \in Sockets :
        /\ Owned(cur, s)
        /\ s.readyState = "OPEN"
        /\ \E f \in InboundFrames :
             \E thr \in SUBSET Subscribers(f.type) :
                Apply(onmessage(Frame, f, thr), "message", 0, cur)

NextRouting ==
    \/ AutoConnect
    \/ SocketOpen
    \/ SocketClose
    \/ AddListener
    \/ RemoveListener
    \/ SocketMessage

SpecRouting == Init /\ [][NextRouting]_vars

(* The generic 'message' event of RobustWebSocketService: the caller
   connects once and registers and removes subscribers of 'message'; the
   server sends frames of every type. *)
OnMessage ==
    \E cb \in Callbacks :
        /\ Len(Listeners(Frame, "message")) < MaxListeners
        /\ Apply(on(Frame, "message", cb), "on", 0, TRUE)

OffMessage ==
    \E cb \in Callbacks :
        /\ LastIndex(Listeners(Frame, "message"), cb) # 0
        /\ Apply(removeListener(Frame, "message", cb), "off", 0, TRUE)

MessageSubscribers ==
    LET l == Listeners(Frame, "message") IN {l[i] : i \in 1..Len(l)}

SocketMessageAny ==
    \E cur \in BOOLEAN, s \in Sockets :
        /\ Owned(cur, s)
        /\ s.readyState = "OPEN"
        /\ \E f \in InboundFrames :
             \E thr \in SUBSET MessageSubscribers :
                Apply(onmessage(Frame, f, thr), "message", 0, cur)

NextGeneric ==
    \/ AutoConnect
    \/ SocketOpen
    \/ SocketClose
    \/ OnMessage
    \/ OffMessage
    \/ SocketMessageAny

SpecGeneric == Init /\ [][NextGeneric]_vars

----------------------------------------------------------------------------
(* EnhancedWebSocketService: the caller's operations and the host's tasks. *)

Enhanced_Connect ==
    \E chs \in ChannelLists :
        Apply(Enhanced_connect(Frame, chs), "connect", 0, TRUE)

Enhanced_Disconnect == Apply(Enhanced_disconnect(Frame), "disconnect", 0, TRUE)

Enhanced_Send ==
    \E dataOk \in BOOLEAN :
        Apply(Enhanced_send(Frame, dataOk), "send", 0, TRUE)

Enhanced_SocketOpen ==
    \E cur \in BOOLEAN, s \in Sockets :
        /\ Owned(cur, s)
        /\ s.readyState = "CONNECTING"
        /\ Apply(Enhanced_onopen(Moved(cur, s, [readyState |-> "OPEN", wasOpen |-> TRUE])),
                 "open", 0, cur)

Enhanced_SocketFail ==
    \E cur \in BOOLEAN, s \in Sockets :
        /\ Owned(cur, s)
        /\ s.readyState \in {"CONNECTING", "OPEN", "CLOSING"}
        /\ Apply(Enhanced_onclose(
                     Enhanced_onerror(Moved(cur, s, [s EXCEPT !.readyState = "CLOSED"])),
                     1006),
                 "fail", 1006, cur)

Enhanced_SocketClose ==
    \E cur \in BOOLEAN, s \in Sockets, code \in CloseCodes :
        /\ Owned(cur, s)
        /\ s.readyState = "OPEN" \/ (s.readyState = "CLOSING" /\ s.wasOpen)
        /\ Apply(Enhanced_onclose(Moved(cur, s, [s EXCEPT !.readyState = "CLOSED"]), code),
                 "close", code, cur)

Enhanced_ReconnectTimeout ==
    \E t \in DOMAIN timeouts :
        /\ t.cb = "reconnect"
        /\ Apply(Enhanced_reconnectCallback([Frame EXCEPT !.timeouts = @ (-) SetToBag({t})]),
                 "reconnectTimer", 0, TRUE)

Enhanced_PingTick ==
    /\ pingTimer
    /\ Apply(Enhanced_ping(Frame), "ping", 0, TRUE)

NextEnhanced ==
    \/ Enhanced_Connect
    \/ Enhanced_Disconnect
    \/ Enhanced_Send
    \/ Enhanced_SocketOpen
    \/ Enhanced_SocketFail
    \/ Enhanced_SocketClose
    \/ Enhanced_ReconnectTimeout
    \/ Enhanced_PingTick

SpecEnhanced == Init /\ [][NextEnhanced]_vars

(* Frame routing of EnhancedWebSocketService: the caller connects once and
   registers and removes subscribers; the server sends frames. *)

\* on() calls the model follows
MaxOn == 3

Simple_On ==
    \E kind \in ListenKinds, cb \in Callbacks :
        /\ clock < MaxOn
        /\ Apply(Simple_on(Frame, kind, cb), "on", 0, TRUE)

Simple_Off ==
    \E kind \in ListenKinds, cb \in Callbacks :
        /\ LastIndex(listeners[kind], cb) # 0
        /\ Apply(Simple_off(Frame, kind, cb), "off", 0, TRUE)

Enhanced_SocketMessage ==
    \E cur \in BOOLEAN, s \in Sockets :
        /\ Owned(cur, s)
        /\ s.readyState = "OPEN"
        /\ \E f \in InboundFrames :
             \E thr \in SUBSET Subscribers(f.type) :
                Apply(Enhanced_onmessage(Frame, f, thr), "message", 0, cur)

Enhanced_AutoConnect ==
    /\ chain = "idle"
    /\ Enhanced_Connect

NextEnhancedRouting ==
    \/ Enhanced_AutoConnect
    \/ Enhanced_SocketOpen
    \/ Enhanced_SocketClose
    \/ Simple_On
    \/ Simple_Off
    \/ Enhanced_SocketMessage

SpecEnhancedRouting == Init /\ [][NextEnhancedRouting]_vars

(* SimpleEventEmitter on its own: on() calls, and off() calls with any
   kind and callback, registered or not. *)
OffKinds == ListenKinds \cup {"message"}

Simple_OffAny ==
    \E kind \in OffKinds, cb \in Callbacks :
        Apply(Simple_off(Frame, kind, cb), "off", 0, TRUE)

NextEmitter ==
    \/ Simple_On
    \/ Simple_OffAny

SpecEmitter == Init /\ [][NextEmitter]_vars

----------------------------------------------------------------------------
(* WebSocketService: the caller's operations and the host's tasks. *)

\* retryCount values and pending error callbacks the model follows
MaxRetryCount == 4
MaxErrors == 1

ErrorPending(bag) ==
    BagCardinality([t \in {x \in DOMAIN bag : x.cb = "error"} |-> bag[t]])

Fixed_Apply(m, op, code, cur) ==
    /\ m.retryCount <= MaxRetryCount
    /\ ErrorPending(m.timeouts) <= MaxErrors
    /\ Apply(m, op, code, cur)

\* the channel list of an existing socket: one its URL was built from
SocketChannels == {chs \in ChannelLists : UrlAccepted(chs)}

Fixed_Connect ==
    \E chs \in ChannelLists :
        Fixed_Apply(Fixed_connect(Frame, chs), "connect", 0, TRUE)

Fixed_Disconnect == Fixed_Apply(Fixed_disconnect(Frame), "disconnect", 0, TRUE)

Fixed_Send ==
    \E dataOk \in BOOLEAN :
        Fixed_Apply(Fixed_send(Frame, dataOk), "send", 0, TRUE)

Fixed_ResetRetryCount ==
    Fixed_Apply(Fixed_resetRetryCount(Frame), "resetRetryCount", 0, TRUE)

Fixed_SocketOpen ==
    \E cur \in BOOLEAN, s \in Sockets :
        /\ Owned(cur, s)
        /\ s.readyState = "CONNECTING"
        /\ Fixed_Apply(Fixed_onopen(Moved(cur, s, [readyState |-> "OPEN", wasOpen |-> TRUE])),
                       "open", 0, cur)

Fixed_SocketFail ==
    \E cur \in BOOLEAN, s \in Sockets, chs \in SocketChannels :
        /\ Owned(cur, s)
        /\ s.readyState \in {"CONNECTING", "OPEN", "CLOSING"}
        /\ Fixed_Apply(Fixed_onclose(
                           Fixed_onerror(Moved(cur, s, [s EXCEPT !.readyState = "CLOSED"]), chs),
                           1006, chs),
                       "fail", 1006, cur)

Fixed_SocketClose ==
    \E cur \in BOOLEAN, s \in Sockets, code \in CloseCodes, chs \in SocketChannels :
        /\ Owned(cur, s)
        /\ s.readyState = "OPEN" \/ (s.readyState = "CLOSING" /\ s.wasOpen)
        /\ Fixed_Apply(Fixed_onclose(Moved(cur, s, [s EXCEPT !.readyState = "CLOSED"]),
                                     code, chs),
                       "close", code, cur)

Fixed_ErrorTimeout ==
    \E t \in DOMAIN timeouts :
        /\ t.cb = "error"
        /\ Fixed_Apply(Fixed_handleConnectionError(
                           [Frame EXCEPT !.timeouts = @ (-) SetToBag({t})], t.chs),
                       "errorTimer", 0, TRUE)

Fixed_ReconnectTimeout ==
    \E t \in DOMAIN timeouts :
        /\ t.cb = "reconnect"
        /\ Fixed_Apply(Fixed_reconnectCallback(
                           [Frame EXCEPT !.timeouts = @ (-) SetToBag({t})], t.chs),
                       "reconnectTimer", 0, TRUE)

NextFixed ==
    \/ Fixed_Connect
    \/ Fixed_Disconnect
    \/ Fixed_Send
    \/ Fixed_ResetRetryCount
    \/ Fixed_SocketOpen
    \/ Fixed_SocketFail
    \/ Fixed_SocketClose
    \/ Fixed_ErrorTimeout
    \/ Fixed_ReconnectTimeout

SpecFixed == Init /\ [][NextFixed]_vars

----------------------------------------------------------------------------
(* RobustWebSocketService with callers that subscribe to different channel
   lists, each one the host accepts. *)
ChannelChoices == {<<"analysis", "alerts">>, <<"analysis">>}

ConnectChannels ==
    \E chs \in ChannelChoices :
        Apply(connect(Frame, chs), "connect", 0, TRUE)

NextChannels ==
    \/ ConnectChannels
    \/ Disconnect
    \/ Send
    \/ ForceReconnect
    \/ On
    \/ SocketOpen
    \/ SocketFail
    \/ SocketClose
    \/ ReconnectTimeout
    \/ ForceTimeout

SpecChannels == Init /\ [][NextChannels]_vars

----------------------------------------------------------------------------
(* Observations used by the properties. *)

\* Sockets the manager created that are connecting or open.
Live ==
    (IF ws.readyState \in {"CONNECTING", "OPEN"} THEN 1 ELSE 0)
    + BagCardinality([s \in {x \in DOMAIN old : x.readyState \in {"CONNECTING", "OPEN"}}
                        |-> old[s]])

\* Pending timeouts whose callback calls connect().
ReconnectTimeouts == {t \in DOMAIN timeouts : t.cb = "reconnect"}
PendingReconnects ==
    BagCardinality([t \in ReconnectTimeouts |-> timeouts[t]])
PendingTimeouts == BagCardinality(timeouts)

----------------------------------------------------------------------------
(* C1: in every reachable state at most one socket created by the manager
   is connecting or open. *)
C1_OneLiveSocket == Live <= 1

(* C2: a connect() call made while the connection is Connecting or Open
   (the current socket's readyState, as getConnectionStatus reports it)
   creates no socket and changes no field of the manager. *)
C2_IdempotentConnect ==
    [][(last'.op = "connect" /\ ws.readyState \in {"CONNECTING", "OPEN"})
         => /\ last'.made = 0
            /\ UNCHANGED <<ws, old, timeouts, reconnectTimer, pingTimer, isConnecting,
                           shouldReconnect, reconnectAttempts, channels>>]_vars

(* C3: after disconnect() and until the caller next calls connect() (or
   forceReconnect()), no step creates a socket or schedules a reconnect:
   not a timer that was pending when disconnect() was called, not a late
   event of the closed socket. *)
C3_CancellationEffective ==
    (cancelled /\ last.op # "disconnect") => (last.made = 0 /\ last.sched = 0)

(* C4: in the automatic chain, the reconnect timer pending after the Nth
   consecutive failure (1 <= N <= maxAttempts) has the delay
   min(3000 * 1.5^(N-1), 30000) ms. *)
ClaimDelay(N) ==
    Min(3000 * (3 ^ (N - 1)) * (2 ^ (UnitExp - (N - 1))), 30000 * TimeUnit)

C4_BackoffDelay ==
    \A t \in ReconnectTimeouts :
        /\ fails \in 1..maxReconnectAttempts
        /\ t.delay = ClaimDelay(fails)

\* the 10th consecutive failure has scheduled its retry, at the 30000 ms cap,
\* after the 5th was scheduled at 15187.5 ms
C4_Witness ==
    /\ fails = maxReconnectAttempts
    /\ reconnectAttempts = maxReconnectAttempts - 1
    /\ last.op = "fail"
    /\ PendingReconnects = 1
    /\ \A t \in ReconnectTimeouts : t.delay = 30000 * TimeUnit
    /\ ClaimDelay(5) * 2 = 30375 * TimeUnit

(* C5: in the automatic chain, once the maxAttempts-th consecutive failure
   has scheduled its retry (the maxAttempts-th delay of C4), no further
   reconnect timer is scheduled: not by the firing of that retry, and not
   by the failure of that retry or any later failure, after which none is
   pending either. *)
C5_NoTimerAfterMax ==
    /\ fails > maxReconnectAttempts => (last.sched = 0 /\ PendingReconnects = 0)
    /\ (fails = maxReconnectAttempts /\ reconnectAttempts = maxReconnectAttempts)
         => last.sched = 0

C5_Witness ==
    /\ fails = maxReconnectAttempts + 1
    /\ last.op = "fail"
    /\ reconnectAttempts = maxReconnectAttempts
    /\ PendingTimeouts = 0

(* C6: the open event leaves reconnectAttempts = 0, and the first reconnect
   scheduled after a successful open has the delay baseDelay (3000 ms). *)
C6_OpenResets ==
    /\ last.op = "open" => reconnectAttempts = 0
    /\ (fresh = "first" /\ last.sched > 0)
         => \A t \in ReconnectTimeouts : t.tracked => t.delay = 3000 * TimeUnit

\* a failure right after an open has scheduled the first retry
C6_Witness ==
    /\ fresh = "first"
    /\ last.op \in FailureOps
    /\ last.sched > 0
    /\ PendingReconnects = 1

(* C7: a close event with code 1000 schedules no reconnect and creates no
   socket; the manager is not connecting after it, and the socket, when it
   is the current one, is CLOSED. *)
C7_NormalCloseNoRetry ==
    (last.op = "close" /\ last.code = 1000)
        => /\ last.sched = 0
           /\ last.made = 0
           /\ ~isConnecting
           /\ last.cur => ws.readyState = "CLOSED"

\* the server closed the current open socket normally while retries are on
C7_Witness ==
    /\ last.op = "close"
    /\ last.code = 1000
    /\ last.cur
    /\ shouldReconnect
    /\ ws.readyState = "CLOSED"

(* C8: a close event with a code other than 1000, with retries enabled
   (disconnect() not called since the last connect()) and attempts
   remaining, leaves exactly one reconnect timer pending, scheduled by
   that event. *)
C8_AbnormalCloseRetries ==
    (/\ last.op \in FailureOps
     /\ last.code # 1000
     /\ shouldReconnect
     /\ reconnectAttempts < maxReconnectAttempts)
        => (last.sched >= 1 /\ PendingReconnects = 1)

\* an abnormal close, after an earlier retry, with its own retry pending
C8_Witness ==
    /\ last.op = "close"
    /\ last.code = 1001
    /\ shouldReconnect
    /\ reconnectAttempts > 0
    /\ PendingReconnects = 1

(* C9: in every reachable state at most one timeout that will call
   connect() is pending. *)
C9_OnePendingTimer == PendingTimeouts <= 1

(* C10: once retries are exhausted, no socket event, reconnect timer or
   send() call creates a socket or schedules a reconnect until the caller
   calls connect() (or forceReconnect(), whose own delayed connect() is the
   caller's). *)
C10_ExhaustionTerminal ==
    (exhausted /\ last.op \notin {"connect", "forceReconnect", "forceTimer"})
        => (last.made = 0 /\ last.sched = 0)

(* C11: a send() call made while the current socket is not OPEN (no socket,
   CONNECTING, CLOSING or CLOSED) returns false and writes nothing, and a
   send() call returns true only when the socket is OPEN. *)
C11_SendOnlyWhenOpen ==
    [][last'.op = "send"
         => /\ ws.readyState # "OPEN" => (last'.ret = "false" /\ last'.wrote = 0)
            /\ last'.ret = "true" => ws.readyState = "OPEN"]_vars

(* C13: no call of connect(), disconnect(), send() or forceReconnect()
   throws to its caller, whatever the state and whether or not an 'error'
   listener is registered. *)
C13_NoThrow == last.op \in CallerOps => ~last.threw

(* C12: a frame whose text cannot be parsed emits exactly one 'error'
   event, throws nothing to the host, and changes neither the socket, the
   flags, the attempt counter nor the timers. *)
C12_MalformedFrame ==
    [][(last'.op = "message" /\ ~last'.inbound.ok)
         => /\ last'.errs = 1
            /\ ~last'.threw
            /\ UNCHANGED <<ws, old, timeouts, reconnectTimer, pingTimer, isConnecting,
                           shouldReconnect, reconnectAttempts, channels>>]_vars

(* C15: when a subscriber callback throws, the subscribers registered after
   it for the same event are still invoked: every frame of a data kind
   invokes all the subscribers of that kind, and the connection state does
   not change. *)
C15_ThrowingSubscriber ==
    [][(last'.op = "message" /\ last'.inbound.type \in ListenKinds)
         => /\ Len(last'.calls) = Len(listeners[last'.inbound.type])
            /\ ~last'.threw
            /\ UNCHANGED <<ws, old, timeouts, reconnectTimer, pingTimer, isConnecting,
                           shouldReconnect, reconnectAttempts, channels>>]_vars

\* the callbacks of the registrations R, by the time of their on() call
ByTime(R) ==
    LET Sorted[S \in SUBSET R] ==
            IF S = {} THEN <<>>
            ELSE LET r == CHOOSE x \in S : \A y \in S : x.t <= y.t
                 IN  <<r.cb>> \o Sorted[S \ {r}]
    IN  Sorted[R]

(* C14: an event emitted by SimpleEventEmitter invokes the subscribers
   registered for its kind (and not removed since) in the order of their
   on() calls. *)
C14_SubscriberOrder ==
    (last.op = "message" /\ last.inbound.type \in ListenKinds)
        => [i \in 1..Len(last.calls) |-> last.calls[i].cb]
             = ByTime({r \in regs : r.kind = last.inbound.type})

\* A, B and C were registered for 'progress' in that order, and a progress
\* frame invoked A, then B, then C
C14_Witness ==
    /\ last.op = "message"
    /\ last.inbound.type = "progress"
    /\ \E a, b, c \in regs :
          /\ a.kind = "progress" /\ b.kind = "progress" /\ c.kind = "progress"
          /\ a.cb = "A" /\ b.cb = "B" /\ c.cb = "C"
          /\ a.t < b.t /\ b.t < c.t
    /\ [i \in 1..Len(last.calls) |-> last.calls[i].cb] = <<"A", "B", "C">>

(* C16: a frame of a data kind that carries a data member invokes each
   subscriber registered for that kind exactly once, in order, with the
   frame's data member as the argument. *)
C16_PayloadDelivered ==
    (/\ last.op = "message"
     /\ last.inbound.type \in ListenKinds
     /\ last.inbound.data # "undefined")
        => last.calls = [i \in 1..Len(listeners[last.inbound.type])
                           |-> [cb |-> listeners[last.inbound.type][i],
                                arg |-> DataOf(last.inbound)]]

(* C17: the heartbeat interval is active exactly while the current socket
   is OPEN, and a heartbeat tick writes a ping only to an open socket. *)
C17_HeartbeatWhileOpen ==
    /\ pingTimer <=> ws.readyState = "OPEN"
    /\ (last.op = "ping" /\ last.wrote > 0) => ws.readyState = "OPEN"

(* C18: disconnect() is idempotent.  A disconnect() call creates no socket,
   schedules no timer and emits no error or exhaustion event; called with
   no socket, or with a socket that is closed already, it starts no closing
   handshake; and called right after another disconnect() it changes no
   field of the manager, no socket and no timer. *)
C18_DisconnectIdempotent ==
    [][last'.op = "disconnect"
         => /\ last'.made = 0 /\ last'.sched = 0
            /\ last'.errs = 0 /\ ~last'.maxed /\ ~last'.threw
            /\ BagCardinality(timeouts') <= BagCardinality(timeouts)
            /\ ws.readyState \in {"null", "CLOSED"} => last'.closeReq = 0
            /\ last.op = "disconnect"
                 => /\ last'.closeReq = 0
                    /\ UNCHANGED <<ws, old, timeouts, reconnectTimer, pingTimer,
                                   isConnecting, shouldReconnect, reconnectAttempts,
                                   channels>>]_vars

\* the second of two disconnect() calls: the socket the first one closed is
\* still closing, and the second asked for no further close
C18_Witness ==
    /\ last.op = "disconnect"
    /\ last.closeReq = 0
    /\ old # EmptyBag
    /\ ws = NoSocket
    /\ ~shouldReconnect

(* C19: the max-attempts-reached event is emitted only when retries are
   exhausted: never by a step that follows an explicit disconnect() (with
   no connect() since), and never by a close event with code 1000. *)
C19_MaxEventOnlyOnExhaustion ==
    last.maxed => (~cancelled /\ ~(last.op = "close" /\ last.code = NormalClosure))

(* C20: the recorded channel list changes only in a connect() call that
   passes the guards; a connect() call that is a no-op, a timer, send(),
   disconnect() and the socket events leave it as it is; and a socket
   constructed by a step that is not a connect() call of the caller (a
   reconnect timer, the delayed connect of forceReconnect, send()) is
   built from the recorded list. *)
C20_ChannelsPersist ==
    [][/\ last'.op # "connect"
           => /\ channels' = channels
              /\ last'.made > 0 => last'.used = channels
       /\ (last'.op = "connect" /\ ConnectGuard(Frame)) => channels' = channels
       /\ (last'.op = "connect" /\ ~ConnectGuard(Frame)) => channels' = last'.used]_vars

\* the third automatic retry in a row rejoined the list of a connect() call
\* that asked for a list other than the default one
C20_Witness ==
    /\ last.op = "reconnectTimer"
    /\ last.made = 1
    /\ reconnectAttempts = 3
    /\ channels = <<"analysis">>
    /\ last.used = <<"analysis">>

\* the invocations of callback cb among the calls of the last step
CallsOf(cb) == Cardinality({i \in 1..Len(last.calls) : last.calls[i].cb = cb})

\* the on() calls for (kind, cb) that no off() has undone
RegistrationsOf(kind, cb) == Cardinality({r \in regs : r.kind = kind /\ r.cb = cb})

(* C21: registrations are not deduplicated: an event emitted by
   SimpleEventEmitter invokes each callback once per on() call made for it
   under the event's kind, so a callback registered twice is invoked
   twice. *)
C21_DuplicateRegistration ==
    (last.op = "message" /\ last.inbound.type \in ListenKinds)
        => \A cb \in Callbacks :
              CallsOf(cb) = RegistrationsOf(last.inbound.type, cb)

\* A was registered twice for 'alert', B once between the two, and an alert
\* frame invoked A, B, A
C21_Witness ==
    /\ last.op = "message"
    /\ last.inbound.type = "alert"
    /\ RegistrationsOf("alert", "A") = 2
    /\ [i \in 1..Len(last.calls) |-> last.calls[i].cb] = <<"A", "B", "A">>

\* the frame types RobustWebSocketService.handleMessage has a case for
RecognizedTypes ==
    {"progress", "result", "complete", "error", "alert", "notification",
     "connection_established", "ready", "pong"}

\* the invocations of cb with argument arg among the calls of the last step
CallsWith(cb, arg) ==
    Cardinality({i \in 1..Len(last.calls) : last.calls[i] = [cb |-> cb, arg |-> arg]})

Occurrences(list, cb) == Cardinality({i \in 1..Len(list) : list[i] = cb})

(* C22: a frame whose type the manager has no case for is forwarded to the
   subscribers of 'message': each of them is invoked once per registration
   with the whole frame, nothing else is invoked, nothing is thrown to the
   host, and neither the socket, the flags, the attempt counter nor the
   timers change. *)
C22_UnknownTypeForwarded ==
    [][(/\ last'.op = "message"
        /\ last'.inbound.ok
        /\ last'.inbound.type \notin RecognizedTypes)
         => /\ \A cb \in Callbacks :
                 CallsWith(cb, WholeOf(last.inbound))'
                    = Occurrences(Listeners(Frame, "message"), cb)
            /\ Len(last'.calls) = Len(Listeners(Frame, "message"))
            /\ ~last'.threw
            /\ UNCHANGED <<ws, old, timeouts, reconnectTimer, pingTimer, isConnecting,
                           shouldReconnect, reconnectAttempts, channels, listeners>>]_vars

(* C23: an open, error or close event of a socket that is no longer the
   current one (disconnect() dropped it and connect() has created the
   current socket since) changes neither the connecting flag, the
   heartbeat timer, the reconnect timer (none is scheduled or cancelled)
   nor the attempt counter. *)
C23_StaleEventsIgnored ==
    [][(/\ last'.op \in {"open", "fail", "close"}
        /\ ~last'.cur
        /\ ws.readyState \in {"CONNECTING", "OPEN"})
         => /\ last'.sched = 0
            /\ UNCHANGED <<isConnecting, pingTimer, reconnectTimer, timeouts,
                           reconnectAttempts>>]_vars

(* C24: a send() call made while the current socket is not OPEN creates no
   socket, schedules no timer, and changes neither the socket, the timers,
   the connecting flag, the attempt counter, the recorded channels nor the
   reconnect flag. *)
C24_SendLeavesConnection ==
    [][(last'.op = "send" /\ ws.readyState # "OPEN")
         => /\ last'.made = 0
            /\ last'.sched = 0
            /\ UNCHANGED <<ws, old, timeouts, reconnectTimer, isConnecting,
                           reconnectAttempts, channels, shouldReconnect>>]_vars

(* C25: while the current socket is OPEN no reconnect timer is pending and
   the attempt counter is 0. *)
C25_OpenIsQuiet ==
    ws.readyState = "OPEN" => (PendingReconnects = 0 /\ reconnectAttempts = 0)

(* C26: in every reachable state the attempt counter is within its bounds:
   0 <= reconnectAttempts <= maxReconnectAttempts (RobustWebSocketService)
   and 0 <= retryCount <= maxRetryAttempts (WebSocketService). *)
C26_AttemptsWithinBounds ==
    /\ reconnectAttempts \in 0..maxReconnectAttempts
    /\ retryCount \in 0..Fixed_maxRetryAttempts

(* C27: a single failure of the current socket (its error event followed by
   its close event), with retries enabled and attempts remaining,
   increases the attempt counter by exactly one and leaves one reconnect
   timer pending, with the delay handleReconnection computes for that
   attempt. *)
C27_FailureCountedOnce ==
    [][(/\ last'.op = "fail"
        /\ last'.cur
        /\ shouldReconnect
        /\ reconnectAttempts < Enhanced_maxReconnectAttempts)
         => /\ reconnectAttempts' = reconnectAttempts + 1
            /\ BagCardinality(timeouts') = 1
            /\ \A t \in DOMAIN timeouts' :
                  t.cb = "reconnect" /\ t.delay = Enhanced_delay(reconnectAttempts + 1)]_vars

(* C28: automatic reconnection terminates.  When no attempt succeeds and
   the caller makes no call after connect(), the manager reaches, and
   stays in, a state with no connecting or open socket and no pending
   timer, after at most maxReconnectAttempts automatic attempts (the
   attempts that failed are the first one and at most that many
   retries). *)
C28_ReconnectTerminates ==
    (chain = "auto")
        ~> [](Live = 0 /\ PendingTimeouts = 0 /\ fails <= maxReconnectAttempts + 1)

\* the connect() call and all ten retries have failed; nothing is pending
C28_Witness ==
    /\ chain = "auto"
    /\ fails = maxReconnectAttempts + 1
    /\ reconnectAttempts = maxReconnectAttempts
    /\ Live = 0
    /\ PendingTimeouts = 0
    /\ old = EmptyBag

(* C29: when disconnect() returns, no timer that will reconnect is pending
   (neither the scheduleReconnect timer nor the delayed connect of
   forceReconnect) and this.reconnectTimer is unset, the heartbeat interval
   is stopped, and a socket that was connecting or open has had close(1000)
   called on it (it is closing) and is no longer the current socket: all in
   the step of the call, whatever the state it was made in. *)
C29_DisconnectCancels ==
    [][last'.op = "disconnect"
         => /\ PendingTimeouts' = 0
            /\ ~reconnectTimer'
            /\ ~pingTimer'
            /\ ws' = NoSocket
            /\ ws.readyState \in {"CONNECTING", "OPEN"}
                 => /\ last'.closeReq = 1
                    /\ BagIn([ws EXCEPT !.readyState = "CLOSING"], old')]_vars

\* `list` without the callback cb, the other callbacks in their order
RECURSIVE Others(_, _)
Others(list, cb) ==
    IF list = <<>> THEN <<>>
    ELSE IF Head(list) = cb THEN Others(Tail(list), cb)
         ELSE <<Head(list)>> \o Others(Tail(list), cb)

(* C30: off(kind, cb) removes cb from the callbacks of `kind` and nothing
   else: the other callbacks of the kind stay, in their order; the lists
   of every other kind, cb's registrations there included, do not change;
   and an off() call for a kind that has no list, or for a callback that
   is not registered under the kind, changes nothing. *)
C30_OffRemovesByIdentity ==
    [][last'.op = "off"
         => LET kind == last'.arg.kind
                cb == last'.arg.cb
            IN  /\ DOMAIN listeners' = DOMAIN listeners
                /\ \A k \in DOMAIN listeners :
                      listeners'[k] = IF k = kind THEN Others(listeners[k], cb)
                                      ELSE listeners[k]
                /\ (kind \notin DOMAIN listeners \/ Occurrences(listeners[kind], cb) = 0)
                     => listeners' = listeners]_vars

\* off('progress', A) after on('progress', A), on('progress', B) and
\* on('alert', A): B is left under 'progress', and A under 'alert'
C30_Witness ==
    /\ last.op = "off"
    /\ last.arg = [kind |-> "progress", cb |-> "A"]
    /\ clock = 3
    /\ listeners = [progress |-> <<"B">>, alert |-> <<"A">>]

=============================================================================
